---------------------------- MODULE Spec2Model ----------------------------
(***************************************************************************)
(* Surya Siddhanta dynamic-apogee engine (src/src/main.rs).                *)
(*                                                                         *)
(* The program computes with f64.  Here an f64 is a binary floating-point  *)
(* number with a significand of Prec bits (53 in the source), an unbounded *)
(* exponent, round-to-nearest-even on every arithmetic operation, and the  *)
(* special values NaN and +/-infinity.  Signed zeros are not told apart.   *)
(* A finite value is the record [k |-> "fin", m |-> m, e |-> e] standing   *)
(* for m * 2^e, with m = 0 or 2^(Prec-1) <= |m| < 2^Prec.                  *)
(***************************************************************************)
EXTENDS Integers, Sequences, FiniteSets, TLC

\* Significand width of the modelled float format.
Prec == 13

Pow2(n) == 2 ^ n

AbsI(n) == IF n < 0 THEN 0 - n ELSE n

SgnI(n) == IF n < 0 THEN 0 - 1 ELSE IF n > 0 THEN 1 ELSE 0

\* F applied to the value of x (of x and y): an argument is evaluated once,
\* as the program evaluates it, however often the body reads it.
Bind(x, F(_)) == CHOOSE r \in {F(v) : v \in {x}} : TRUE

Bind2(x, y, F(_, _)) == CHOOSE r \in {F(v, w) : v \in {x}, w \in {y}} : TRUE

RECURSIVE BitLen(_)
BitLen(n) == IF n = 0 THEN 0 ELSE 1 + BitLen(n \div 2)

NaN == [k |-> "nan", m |-> 0, e |-> 0]

Inf(s) == [k |-> "inf", m |-> s, e |-> 0]

Fin(m, e) == [k |-> "fin", m |-> m, e |-> e]

Zero == Fin(0, 0)

IsFin(x) == x.k = "fin"

IsNaN(x) == x.k = "nan"

\* q + 1 or q: q.r rounded to the nearest integer, ties to even, where r is
\* the remainder out of 2 * half.
Nearest(q, r, half) == IF r > half \/ (r = half /\ q % 2 = 1) THEN q + 1 ELSE q

\* s * a * 2^e, a > 0 of L bits, rounded to Prec significant bits.
RoundBits(s, a, L, e) ==
    IF L <= Prec THEN Fin(s * a * Pow2(Prec - L), e - (Prec - L))
    ELSE Bind(Nearest(a \div Pow2(L - Prec), a % Pow2(L - Prec), Pow2(L - Prec - 1)),
              LAMBDA q2 : IF q2 = Pow2(Prec)
                          THEN Fin(s * Pow2(Prec - 1), e + L - Prec + 1)
                          ELSE Fin(s * q2, e + L - Prec))

\* m * 2^e correctly rounded (nearest, ties to even) to Prec significant bits.
Round(m0, e0) ==
    Bind2(m0, e0, LAMBDA m, e :
        IF m = 0 THEN Zero
        ELSE Bind(BitLen(AbsI(m)), LAMBDA L : RoundBits(SgnI(m), AbsI(m), L, e)))

FromInt(n) == Round(n, 0)

FNeg(x0) == Bind(x0, LAMBDA x : IF IsFin(x) \/ x.k = "inf" THEN [x EXCEPT !.m = 0 - x.m] ELSE x)

FAbs(x0) == Bind(x0, LAMBDA x : IF IsFin(x) \/ x.k = "inf" THEN [x EXCEPT !.m = AbsI(x.m)] ELSE x)

\* -1, 0, 1 as |a| is below, equal to, above |b| (finite a, b).
CmpAbs(a0, b0) ==
    Bind2(a0, b0, LAMBDA a, b :
        IF a.m = 0 \/ b.m = 0 THEN SgnI(AbsI(a.m) - AbsI(b.m))
        ELSE IF a.e # b.e THEN SgnI(a.e - b.e)
        ELSE SgnI(AbsI(a.m) - AbsI(b.m)))

\* The sign of x, doubled for an infinity.
SignClass(x) == IF IsFin(x) THEN SgnI(x.m) ELSE 2 * x.m

\* -1, 0, 1 as a is below, equal to, above b (neither is NaN).
Cmp(a0, b0) ==
    Bind2(a0, b0, LAMBDA a, b :
        IF SignClass(a) # SignClass(b) THEN SgnI(SignClass(a) - SignClass(b))
        ELSE IF ~IsFin(a) THEN 0
        ELSE SgnI(a.m) * CmpAbs(a, b))

\* The comparison operators of f64: every comparison with NaN is false.
FLt(a0, b0) == Bind2(a0, b0, LAMBDA a, b : IsNaN(a) = FALSE /\ IsNaN(b) = FALSE /\ Cmp(a, b) < 0)

FLe(a0, b0) == Bind2(a0, b0, LAMBDA a, b : IsNaN(a) = FALSE /\ IsNaN(b) = FALSE /\ Cmp(a, b) <= 0)

FEq(a0, b0) == Bind2(a0, b0, LAMBDA a, b : IsNaN(a) = FALSE /\ IsNaN(b) = FALSE /\ Cmp(a, b) = 0)

\* The sum of two nonzero finite values, hi the one with the larger exponent.
AddAligned(hi, lo) ==
    IF hi.e - lo.e >= Prec + 2 THEN hi
    ELSE Round(hi.m * Pow2(hi.e - lo.e) + lo.m, lo.e)

FAdd(a0, b0) ==
    Bind2(a0, b0, LAMBDA a, b :
        IF IsNaN(a) \/ IsNaN(b) THEN NaN
        ELSE IF ~IsFin(a) THEN (IF ~IsFin(b) /\ b.m # a.m THEN NaN ELSE a)
        ELSE IF ~IsFin(b) THEN b
        ELSE IF a.m = 0 THEN b
        ELSE IF b.m = 0 THEN a
        ELSE IF a.e >= b.e THEN AddAligned(a, b) ELSE AddAligned(b, a))

FSub(a, b) == FAdd(a, FNeg(b))

FMul(a0, b0) ==
    Bind2(a0, b0, LAMBDA a, b :
        IF IsNaN(a) \/ IsNaN(b) THEN NaN
        ELSE IF ~IsFin(a) \/ ~IsFin(b)
             THEN (IF a.m = 0 \/ b.m = 0 THEN NaN ELSE Inf(SgnI(a.m) * SgnI(b.m)))
        ELSE Round(a.m * b.m, a.e + b.e))

\* The quotient of two nonzero finite values: Prec + 3 quotient bits and a
\* sticky bit, then rounded.
DivFinite(a, b) ==
    Bind(AbsI(a.m) * Pow2(Prec + 2), LAMBDA n :
        Round(SgnI(a.m) * SgnI(b.m)
                 * (2 * (n \div AbsI(b.m)) + (IF n % AbsI(b.m) = 0 THEN 0 ELSE 1)),
              a.e - b.e - Prec - 3))

FDiv(a0, b0) ==
    Bind2(a0, b0, LAMBDA a, b :
        IF IsNaN(a) \/ IsNaN(b) THEN NaN
        ELSE IF ~IsFin(a) THEN (IF ~IsFin(b) THEN NaN
                                ELSE Inf(a.m * (IF b.m < 0 THEN 0 - 1 ELSE 1)))
        ELSE IF ~IsFin(b) THEN Zero
        ELSE IF b.m = 0 THEN (IF a.m = 0 THEN NaN ELSE Inf(SgnI(a.m)))
        ELSE IF a.m = 0 THEN Zero
        ELSE DivFinite(a, b))

\* (r * 2^d) mod b, by d doublings, each reduced below b.
RECURSIVE ShiftMod(_, _, _)
ShiftMod(r, d, b) == IF d = 0 THEN r ELSE ShiftMod((2 * r) % b, d - 1, b)

\* The % of f64 (fmod): exact, with the sign of the dividend.
FRem(a0, b0) ==
    Bind2(a0, b0, LAMBDA a, b :
        IF IsNaN(a) \/ IsNaN(b) \/ ~IsFin(a) THEN NaN
        ELSE IF ~IsFin(b) THEN a
        ELSE IF b.m = 0 THEN NaN
        ELSE IF CmpAbs(a, b) < 0 THEN a
        ELSE Round(SgnI(a.m) * ShiftMod(AbsI(a.m) % AbsI(b.m), a.e - b.e, AbsI(b.m)),
                   b.e))

RECURSIVE ISqrt(_, _, _)
ISqrt(n, lo, hi) ==
    IF hi - lo <= 1 THEN lo
    ELSE IF ((lo + hi) \div 2) * ((lo + hi) \div 2) <= n
         THEN ISqrt(n, (lo + hi) \div 2, hi)
         ELSE ISqrt(n, lo, (lo + hi) \div 2)

\* The square root of n * 2^e (n > 0, e even): the integer root s, a half bit
\* and a sticky bit, then rounded.
SqrtScaled(n, e) ==
    Bind(ISqrt(n, 0, Pow2(Prec + 2)), LAMBDA s :
        Round(4 * s + (IF n > s * s + s THEN 2 ELSE 0) + (IF n # s * s THEN 1 ELSE 0),
              (e \div 2) - 2))

FSqrt(a0) ==
    Bind(a0, LAMBDA a :
        IF IsNaN(a) THEN NaN
        ELSE IF ~IsFin(a) THEN (IF a.m > 0 THEN a ELSE NaN)
        ELSE IF a.m = 0 THEN Zero
        ELSE IF a.m < 0 THEN NaN
        ELSE IF (a.e - Prec) % 2 = 0
             THEN SqrtScaled(a.m * Pow2(Prec), a.e - Prec)
             ELSE SqrtScaled(a.m * Pow2(Prec + 1), a.e - Prec - 1))

\* f64::fract: x - x.trunc(), which keeps the sign of x.
Fract(x0) ==
    Bind(x0, LAMBDA x :
        IF ~IsFin(x) THEN NaN
        ELSE IF x.e >= 0 THEN Zero
        ELSE IF 0 - x.e >= Prec THEN x
        ELSE Round(SgnI(x.m) * (AbsI(x.m) % Pow2(0 - x.e)), x.e))

\* f64::max and f64::min: when one operand is NaN the other is returned.
FMax(a0, b0) ==
    Bind2(a0, b0, LAMBDA a, b :
        IF IsNaN(a) THEN b ELSE IF IsNaN(b) THEN a
        ELSE IF Cmp(a, b) >= 0 THEN a ELSE b)

FMin(a0, b0) ==
    Bind2(a0, b0, LAMBDA a, b :
        IF IsNaN(a) THEN b ELSE IF IsNaN(b) THEN a
        ELSE IF Cmp(a, b) <= 0 THEN a ELSE b)

\* The decimal literal n / d as the compiler rounds it.
Dec(n, d) == FDiv(FromInt(n), FromInt(d))

\* x * 2^K rounded to the nearest integer (finite x of moderate size).
ToFixed(x0, K) ==
    Bind2(x0, x0.e + K, LAMBDA x, sh :
        IF sh >= 0 THEN x.m * Pow2(sh)
        ELSE IF 0 - sh > Prec + 1 THEN 0
        ELSE SgnI(x.m) * Nearest(AbsI(x.m) \div Pow2(0 - sh), AbsI(x.m) % Pow2(0 - sh),
                                 Pow2(0 - sh - 1)))

(***************************************************************************)
(* The library sine: 2^14 * sin at every 1/16 of a quadrant, interpolated  *)
(* linearly in between.  Angles are measured in 1/1024 of a quadrant.      *)
(***************************************************************************)
SinTab == <<0, 1606, 3196, 4756, 6270, 7723, 9102, 10394, 11585, 12665, 13623,
            14449, 15137, 15679, 16069, 16305, 16384>>

\* 2^20 * sin of u/1024 quadrants, 0 <= u <= 1024.
SinQ(u) ==
    IF u = 1024 THEN 64 * SinTab[17]
    ELSE SinTab[(u \div 64) + 1] * (64 - (u % 64)) + SinTab[(u \div 64) + 2] * (u % 64)

\* 2^20 * sin of u/1024 quadrants, 0 <= u < 4096.
SinU(u) ==
    CASE u \div 1024 = 0 -> SinQ(u % 1024)
      [] u \div 1024 = 1 -> SinQ(1024 - (u % 1024))
      [] u \div 1024 = 2 -> 0 - SinQ(u % 1024)
      [] OTHER           -> 0 - SinQ(1024 - (u % 1024))

\* deg as a count of 1/1024 quadrants in 0 .. 4095.
QuadUnits(deg) == ToFixed(FDiv(FRem(deg, FromInt(360)), FromInt(90)), 10) % 4096

sin_d(deg0) ==
    Bind(deg0, LAMBDA deg :
        IF ~IsFin(deg) THEN NaN
        ELSE Bind(QuadUnits(deg), LAMBDA u : Round(SinU(u), 0 - 20)))

cos_d(deg0) ==
    Bind(deg0, LAMBDA deg :
        IF ~IsFin(deg) THEN NaN
        ELSE Bind(QuadUnits(deg), LAMBDA u : Round(SinU((u + 1024) % 4096), 0 - 20)))

\* The arcsine of v / 2^14 (0 <= v <= 2^14) in degrees, v between table
\* entries i and i + 1.
AsinSegment(v, i) ==
    FMul(FAdd(FromInt(64 * i),
              FDiv(FromInt(64 * (v - SinTab[i + 1])),
                   FromInt(SinTab[i + 2] - SinTab[i + 1]))),
         Dec(90, 1024))

\* f64::asin in degrees: NaN outside [-1, 1].
asin_d(val0) ==
    Bind(val0, LAMBDA val :
        IF ~IsFin(val) THEN NaN
        ELSE IF CmpAbs(val, FromInt(1)) > 0 THEN NaN
        ELSE Bind(ToFixed(FAbs(val), 14), LAMBDA v :
                Bind(AsinSegment(v, CHOOSE j \in 0 .. 15 :
                                        SinTab[j + 1] <= v /\ v <= SinTab[j + 2]),
                     LAMBDA d : IF val.m < 0 THEN FNeg(d) ELSE d)))

(***************************************************************************)
(* Constants.  Time is counted in units of 1/16 of the source's            *)
(* 1,577,917,828-day cycle, so MAHAYUGA_DAYS is 16 units; revolution       *)
(* counts are kept modulo 16 (to six decimals), which leaves               *)
(* days * revs / MAHAYUGA_DAYS unchanged modulo 1 for whole units of time  *)
(* and keeps the sign and the fractional part of every rate.               *)
(***************************************************************************)
MAHAYUGA_DAYS == FromInt(16)

R == FromInt(3438)

D360 == FromInt(360)

\* The source literal ip.fp (fp in millionths), modulo 16 with its sign kept.
Revs(ip, fp) == FAdd(FromInt(SgnI(ip) * (AbsI(ip) % 16)), Dec(fp, 1000000))

\* The source literal n / 10^6 degrees.
Deg(n) == Dec(n, 1000000)

EpicycleDims(even, odd) == [even |-> even, odd |-> odd]

None == <<>>

\* Variant of Some that loses the epicycle: the entry reads as None.
Some_Lost(x) == <<>>

Some(x) == <<x>>

PLANETS == <<
    [name |-> "Sun", ptype |-> "Luminary", revs |-> Revs(4320848, 344085),
     manda_ep |-> EpicycleDims(FromInt(14), Dec(1367, 100)), sighra_ep |-> None,
     bija_offset |-> Deg(358230698), apsis_offset |-> Deg(150653876),
     apsis_revs |-> Revs(0 - 167, 0 - 466030)],
    [name |-> "Moon", ptype |-> "Luminary", revs |-> Revs(57753342, 923938),
     manda_ep |-> EpicycleDims(FromInt(32), Dec(3167, 100)), sighra_ep |-> None,
     bija_offset |-> Deg(189), apsis_offset |-> Deg(359999999),
     apsis_revs |-> Revs(494300, 424324)],
    [name |-> "Mars", ptype |-> "Star", revs |-> Revs(2296812, 596696),
     manda_ep |-> EpicycleDims(FromInt(75), FromInt(72)),
     sighra_ep |-> Some(EpicycleDims(FromInt(235), FromInt(232))),
     bija_offset |-> Deg(11084052), apsis_offset |-> Deg(292325807),
     apsis_revs |-> Revs(41, 432326)],
    [name |-> "Mercury", ptype |-> "Star", revs |-> Revs(17937100, 892762),
     manda_ep |-> EpicycleDims(FromInt(30), FromInt(28)),
     sighra_ep |-> Some(EpicycleDims(FromInt(133), FromInt(132))),
     bija_offset |-> Deg(337294023), apsis_offset |-> Deg(45061328),
     apsis_revs |-> Revs(2, 138402)],
    [name |-> "Jupiter", ptype |-> "Star", revs |-> Revs(364191, 781104),
     manda_ep |-> EpicycleDims(FromInt(33), FromInt(32)),
     sighra_ep |-> Some(EpicycleDims(FromInt(70), FromInt(72))),
     bija_offset |-> Deg(7811646), apsis_offset |-> Deg(351080263),
     apsis_revs |-> Revs(0 - 2, 0 - 897381)],
    [name |-> "Venus", ptype |-> "Star", revs |-> Revs(7011399, 585898),
     manda_ep |-> EpicycleDims(FromInt(12), FromInt(11)),
     sighra_ep |-> Some(EpicycleDims(FromInt(262), FromInt(260))),
     bija_offset |-> Deg(359999783), apsis_offset |-> Deg(159),
     apsis_revs |-> Revs(0, 158)],
    [name |-> "Saturn", ptype |-> "Star", revs |-> Revs(146704, 226088),
     manda_ep |-> EpicycleDims(FromInt(49), FromInt(48)),
     sighra_ep |-> Some(EpicycleDims(FromInt(39), FromInt(40))),
     bija_offset |-> Deg(309702858), apsis_offset |-> Deg(3553757),
     apsis_revs |-> Revs(143, 300518)] >>

NODE_REVS == Revs(0 - 232269, 0 - 448305)

NODE_OFFSET == Deg(189472384)

norm360(angle) ==
    Bind(FRem(angle, D360), LAMBDA a : IF FLt(a, Zero) THEN FAdd(a, D360) ELSE a)

\* Variant of get_mean_longitude that takes 360 days as the cycle length.
MeanLocals_CycleOf360(days_elapsed, revs, correction) ==
    Bind(FDiv(FMul(days_elapsed, revs), D360), LAMBDA cycles :
    Bind(Fract(cycles), LAMBDA fraction :
        [cycles |-> cycles, fraction |-> fraction,
         ret |-> norm360(FAdd(FMul(fraction, D360), correction))]))

\* The locals of get_mean_longitude and its result.
MeanLocals(days_elapsed, revs, correction) ==
    Bind(FDiv(FMul(days_elapsed, revs), MAHAYUGA_DAYS), LAMBDA cycles :
    Bind(Fract(cycles), LAMBDA fraction :
        [cycles |-> cycles, fraction |-> fraction,
         ret |-> norm360(FAdd(FMul(fraction, D360), correction))]))

get_mean_longitude(days_elapsed, revs, correction) ==
    MeanLocals(days_elapsed, revs, correction).ret

get_rectified_periphery(ep0, anomaly) ==
    Bind2(ep0, FSub(ep0.even, ep0.odd), LAMBDA ep, difference :
        FSub(ep.even, FMul(difference, FAbs(sin_d(anomaly)))))

\* The locals of get_manda_correction and its result.
MandaLocals(mean_lon, ucca, ep) ==
    Bind(norm360(FSub(mean_lon, ucca)), LAMBDA anomaly :
    Bind(get_rectified_periphery(ep, anomaly), LAMBDA rectified_circum :
    Bind(FDiv(FMul(rectified_circum, sin_d(anomaly)), D360), LAMBDA sin_eq :
        [anomaly |-> anomaly, sin_eq |-> sin_eq, ret |-> asin_d(sin_eq)])))

get_manda_correction(mean_lon, ucca, ep) == MandaLocals(mean_lon, ucca, ep).ret

\* Variant of the clamp in which a NaN operand wins, as in IEEE maximum/minimum.
Clamp_NaNWins(sine_val) ==
    IF IsNaN(sine_val) THEN NaN ELSE FMin(FMax(sine_val, FNeg(R)), R)

\* sine_val.max(-R).min(R)
Clamp(sine_val) == FMin(FMax(sine_val, FNeg(R)), R)

\* The locals of get_sighra_correction and its result.
SighraLocals(planet_lon, sighrocca, ep) ==
    Bind(norm360(FSub(sighrocca, planet_lon)), LAMBDA anomaly :
    Bind(get_rectified_periphery(ep, anomaly), LAMBDA rectified_circum :
    Bind(FMul(FDiv(rectified_circum, D360), R), LAMBDA r :
    Bind2(FMul(r, sin_d(anomaly)), FAdd(R, FMul(r, cos_d(anomaly))),
          LAMBDA dohphala, r_plus_koti :
    Bind(FSqrt(FAdd(FMul(r_plus_koti, r_plus_koti), FMul(dohphala, dohphala))),
         LAMBDA karna :
    Bind(FDiv(FMul(dohphala, R), karna), LAMBDA sine_val :
    Bind(Clamp(sine_val), LAMBDA clamped :
    Bind(FDiv(clamped, R), LAMBDA arg :
        [anomaly |-> anomaly, r |-> r, dohphala |-> dohphala, karna |-> karna,
         sine_val |-> sine_val, clamped |-> clamped, arg |-> arg,
         ret |-> asin_d(arg)]))))))))

get_sighra_correction(planet_lon, sighrocca, ep) ==
    SighraLocals(planet_lon, sighrocca, ep).ret

calculate_node_longitude(d) == norm360(get_mean_longitude(d, NODE_REVS, NODE_OFFSET))

\* Variant of the selection without the Mercury/Venus swap.
SelectPair_NoSwap(d, p, sm) ==
    IF p.ptype = "Luminary"
    THEN <<get_mean_longitude(d, p.revs, p.bija_offset), Zero>>
    ELSE <<get_mean_longitude(d, p.revs, p.bija_offset), sm>>

\* The (mean_lon, sighrocca_lon) pair calculate_true_position selects for a body.
SelectPair(d, p, sm) ==
    IF p.ptype = "Luminary"
    THEN <<get_mean_longitude(d, p.revs, p.bija_offset), Zero>>
    ELSE IF p.name = "Mercury" \/ p.name = "Venus"
         THEN <<sm, get_mean_longitude(d, p.revs, p.bija_offset)>>
         ELSE <<get_mean_longitude(d, p.revs, p.bija_offset), sm>>

\* The (disp_mean, disp_sighra) pair that main prints for a body.
DisplayPair(d, p, sm) ==
    IF p.ptype = "Luminary"
    THEN <<get_mean_longitude(d, p.revs, p.bija_offset), Zero>>
    ELSE IF p.name = "Mercury" \/ p.name = "Venus"
         THEN <<sm, get_mean_longitude(d, p.revs, p.bija_offset)>>
         ELSE <<get_mean_longitude(d, p.revs, p.bija_offset), sm>>

\* Variant in which Ketu has a motion of its own, a quarter turn from Rahu.
ketu_longitude_Quadrature(r) == norm360(FAdd(r, FromInt(90)))

\* let ketu = norm360(rahu + 180.0)
ketu_longitude(r) == norm360(FAdd(r, FromInt(180)))

\* A local that is not bound yet.
Undef == [k |-> "undef", m |-> 0, e |-> 0]

(***************************************************************************)
(* Bounds of the inputs.                                                   *)
(***************************************************************************)
\* main is run for days_elapsed in MinDay .. MaxDay units of time.
MaxDay == 6

MinDay == 0 - 3

\* get_mean_longitude is compared at days and days + k * MAHAYUGA_DAYS, |k| <= MaxK.
MaxK == 2

\* A negative value far below one unit in the last place of 360.
TinyNeg == Round(0 - 1, 0 - 60)

VARIABLES
    pc,             \* main: "start", "loop", "done", "exit"; "harness" outside main
    parsed,         \* main: whether the date argument parsed
    days_elapsed,   \* main
    mean_sun,       \* main
    idx,            \* main: 1-based index of `planet` in `for planet in PLANETS`
    out,            \* main: the rows printed, as the values handed to println!
    rahu, ketu,     \* main
    stage,          \* calculate_true_position: how far the call has got
    planet, days, sun_mean,                   \* its arguments
    mean_lon, sighrocca_lon, manda_ucca,      \* its locals
    s1, p1, m1, p2, m2, p_manda, s2,
    true_lon,       \* its return value
    call            \* the last direct call of a helper function, with its locals

mainVars == <<pc, parsed, days_elapsed, mean_sun, idx, out, rahu, ketu>>

argVars == <<planet, days, sun_mean>>

pairVars == <<mean_lon, sighrocca_lon, manda_ucca>>

vars == <<pc, parsed, days_elapsed, mean_sun, idx, out, rahu, ketu, stage,
          planet, days, sun_mean, mean_lon, sighrocca_lon, manda_ucca,
          s1, p1, m1, p2, m2, p_manda, s2, true_lon, call>>

NoCall == [fn |-> "none"]

FrameInit ==
    /\ stage = "idle"
    /\ planet = PLANETS[1] /\ days = Undef /\ sun_mean = Undef
    /\ mean_lon = Undef /\ sighrocca_lon = Undef /\ manda_ucca = Undef
    /\ s1 = Undef /\ p1 = Undef /\ m1 = Undef /\ p2 = Undef /\ m2 = Undef
    /\ p_manda = Undef /\ s2 = Undef /\ true_lon = Undef

Init ==
    /\ pc = "start"
    /\ parsed \in BOOLEAN
    /\ days_elapsed \in IF parsed THEN {FromInt(d) : d \in MinDay .. MaxDay} ELSE {Undef}
    /\ mean_sun = Undef /\ idx = 0 /\ out = <<>> /\ rahu = Undef /\ ketu = Undef
    /\ FrameInit
    /\ call = NoCall

(***************************************************************************)
(* calculate_true_position, one action per step of the iteration.          *)
(***************************************************************************)
\* Entry: the pair is selected and the dynamic apogee computed.
Enter(d, p, sm) ==
    /\ stage' = "MeanComputed"
    /\ planet' = p /\ days' = d /\ sun_mean' = sm
    /\ mean_lon' = SelectPair(d, p, sm)[1]
    /\ sighrocca_lon' = SelectPair(d, p, sm)[2]
    /\ manda_ucca' = get_mean_longitude(d, p.apsis_revs, p.apsis_offset)
    /\ s1' = Undef /\ p1' = Undef /\ m1' = Undef /\ p2' = Undef /\ m2' = Undef
    /\ p_manda' = Undef /\ s2' = Undef /\ true_lon' = Undef

LuminaryReturn ==
    /\ stage = "MeanComputed" /\ planet.ptype = "Luminary"
    /\ true_lon' = norm360(FSub(mean_lon,
                        get_manda_correction(mean_lon, manda_ucca, planet.manda_ep)))
    /\ stage' = "Returned"
    /\ UNCHANGED <<mainVars, argVars, pairVars, s1, p1, m1, p2, m2, p_manda, s2, call>>

\* planet.sighra_ep.unwrap() panics on None.
HalfSighra ==
    /\ stage = "MeanComputed" /\ planet.ptype # "Luminary"
    /\ IF planet.sighra_ep = None
       THEN stage' = "Panicked" /\ UNCHANGED <<s1, p1>>
       ELSE /\ s1' = get_sighra_correction(mean_lon, sighrocca_lon, planet.sighra_ep[1])
            /\ p1' = FAdd(mean_lon, FDiv(s1', FromInt(2)))
            /\ stage' = "HalfSighraApplied"
    /\ UNCHANGED <<mainVars, argVars, pairVars, m1, p2, m2, p_manda, s2, true_lon, call>>

Manda1 ==
    /\ stage = "HalfSighraApplied"
    /\ m1' = get_manda_correction(p1, manda_ucca, planet.manda_ep)
    /\ p2' = FAdd(mean_lon, FDiv(m1', FromInt(2)))
    /\ stage' = "Manda1Applied"
    /\ UNCHANGED <<mainVars, argVars, pairVars, s1, p1, m2, p_manda, s2, true_lon, call>>

\* Variant of the second manda step that accumulates on p2.
Manda2_Accumulate ==
    /\ stage = "Manda1Applied"
    /\ m2' = get_manda_correction(p2, manda_ucca, planet.manda_ep)
    /\ p_manda' = FAdd(p2, m2')
    /\ stage' = "Manda2Applied"
    /\ UNCHANGED <<mainVars, argVars, pairVars, s1, p1, m1, p2, s2, true_lon, call>>

Manda2 ==
    /\ stage = "Manda1Applied"
    /\ m2' = get_manda_correction(p2, manda_ucca, planet.manda_ep)
    /\ p_manda' = FAdd(mean_lon, m2')
    /\ stage' = "Manda2Applied"
    /\ UNCHANGED <<mainVars, argVars, pairVars, s1, p1, m1, p2, s2, true_lon, call>>

FinalSighra ==
    /\ stage = "Manda2Applied"
    /\ s2' = get_sighra_correction(p_manda, sighrocca_lon, planet.sighra_ep[1])
    /\ true_lon' = norm360(FAdd(p_manda, s2'))
    /\ stage' = "FinalSighraApplied"
    /\ UNCHANGED <<mainVars, argVars, pairVars, s1, p1, m1, p2, m2, p_manda, call>>

Returned == stage \in {"Returned", "FinalSighraApplied"}

(***************************************************************************)
(* main.  The conversion of the date argument to days_elapsed is not       *)
(* modelled: days_elapsed is the input.                                    *)
(***************************************************************************)
ParseError ==
    /\ pc = "start" /\ ~parsed
    /\ pc' = "exit"
    /\ UNCHANGED <<parsed, days_elapsed, mean_sun, idx, out, rahu, ketu, stage,
                   argVars, pairVars, s1, p1, m1, p2, m2, p_manda, s2, true_lon, call>>

Start ==
    /\ pc = "start" /\ parsed
    /\ mean_sun' = get_mean_longitude(days_elapsed, PLANETS[1].revs, PLANETS[1].bija_offset)
    /\ idx' = 1
    /\ pc' = "loop"
    /\ UNCHANGED <<parsed, days_elapsed, out, rahu, ketu, stage,
                   argVars, pairVars, s1, p1, m1, p2, m2, p_manda, s2, true_lon, call>>

CallTruePosition ==
    /\ pc = "loop" /\ idx <= Len(PLANETS) /\ stage = "idle"
    /\ Enter(days_elapsed, PLANETS[idx], mean_sun)
    /\ UNCHANGED <<mainVars, call>>

Display ==
    /\ pc = "loop" /\ Returned
    /\ LET p    == PLANETS[idx]
           disp == DisplayPair(days_elapsed, p, mean_sun)
       IN  out' = Append(out, [name |-> p.name, true |-> true_lon,
                               mean |-> disp[1], sighra |-> disp[2]])
    /\ idx' = idx + 1
    /\ stage' = "idle"
    /\ UNCHANGED <<pc, parsed, days_elapsed, mean_sun, rahu, ketu,
                   argVars, pairVars, s1, p1, m1, p2, m2, p_manda, s2, true_lon, call>>

Nodes ==
    /\ pc = "loop" /\ idx > Len(PLANETS) /\ stage = "idle"
    /\ rahu' = calculate_node_longitude(days_elapsed)
    /\ ketu' = ketu_longitude(rahu')
    /\ out' = out \o << [name |-> "Rahu", true |-> rahu', mean |-> rahu', sighra |-> Zero],
                        [name |-> "Ketu", true |-> ketu', mean |-> ketu', sighra |-> Zero] >>
    /\ pc' = "done"
    /\ UNCHANGED <<parsed, days_elapsed, mean_sun, idx, stage,
                   argVars, pairVars, s1, p1, m1, p2, m2, p_manda, s2, true_lon, call>>

Next ==
    \/ ParseError
    \/ Start
    \/ CallTruePosition
    \/ LuminaryReturn
    \/ HalfSighra
    \/ Manda1
    \/ Manda2
    \/ FinalSighra
    \/ Display
    \/ Nodes

Spec == Init /\ [][Next]_vars

(***************************************************************************)
(* The functions called directly, on inputs beyond those main produces.    *)
(***************************************************************************)
\* Multiples of 45 degrees up to MaxEighths eighths of a turn either way.
MaxEighths == 20

Angles == {FromInt(45 * a) : a \in (0 - MaxEighths) .. MaxEighths}
              \cup {TinyNeg, FNeg(TinyNeg), FromInt(0 - 1000000), Dec(3599, 10)}

DayInputs == {FromInt(d) : d \in MinDay .. MaxDay} \cup {TinyNeg}

RateInputs == {FromInt(r) : r \in (0 - 2) .. 3}
                  \cup {Dec(1, 2), Dec(9, 4), PLANETS[1].revs, NODE_REVS}

OffsetInputs == {Zero, FromInt(90), NODE_OFFSET, PLANETS[1].bija_offset}

\* Longitudes every MaxLonStep-th part of 360 degrees.
MaxLonStep == 24

LonInputs == {Dec(360 * j, MaxLonStep) : j \in 0 .. MaxLonStep - 1}

SighraEpInputs == {PLANETS[3].sighra_ep[1], PLANETS[5].sighra_ep[1],
                   EpicycleDims(D360, D360), EpicycleDims(FromInt(400), FromInt(380))}

\* A luminary whose apogee moves with its mean longitude.
LumSame == [name |-> "LumSame", ptype |-> "Luminary", revs |-> FromInt(1),
            manda_ep |-> PLANETS[1].manda_ep, sighra_ep |-> None,
            bija_offset |-> Zero, apsis_offset |-> Zero, apsis_revs |-> FromInt(1)]

\* A luminary with a manda epicycle larger than the deferent.
LumWide == [name |-> "LumWide", ptype |-> "Luminary", revs |-> FromInt(1),
            manda_ep |-> EpicycleDims(FromInt(400), FromInt(400)), sighra_ep |-> None,
            bija_offset |-> FromInt(90), apsis_offset |-> Zero, apsis_revs |-> Zero]

ParamInputs == {PLANETS[i] : i \in 1 .. Len(PLANETS)} \cup {LumSame, LumWide}

SunMeanInputs == {FromInt(10), FromInt(200)}

InitFn ==
    /\ pc = "harness"
    /\ parsed = TRUE /\ days_elapsed = Undef
    /\ mean_sun = Undef /\ idx = 0 /\ out = <<>> /\ rahu = Undef /\ ketu = Undef
    /\ FrameInit
    /\ call = NoCall

frameVars == <<stage, planet, days, sun_mean, mean_lon, sighrocca_lon, manda_ucca,
               s1, p1, m1, p2, m2, p_manda, s2, true_lon>>

FnNorm360 ==
    /\ pc = "harness" /\ stage = "idle" /\ call = NoCall
    /\ \E a \in Angles : call' = [fn |-> "norm360", angle |-> a, ret |-> norm360(a)]
    /\ UNCHANGED <<mainVars, frameVars>>

FnMeanLongitude ==
    /\ pc = "harness" /\ stage = "idle" /\ call = NoCall
    /\ \E d \in DayInputs, r \in RateInputs, c \in OffsetInputs, k \in (0 - MaxK) .. MaxK :
          call' = [fn |-> "get_mean_longitude", days |-> d, revs |-> r,
                   correction |-> c, k |-> k,
                   base |-> MeanLocals(d, r, c),
                   shifted |-> MeanLocals(FAdd(d, FMul(FromInt(k), MAHAYUGA_DAYS)), r, c)]
    /\ UNCHANGED <<mainVars, frameVars>>

FnSighra ==
    /\ pc = "harness" /\ stage = "idle" /\ call = NoCall
    /\ \E pl \in LonInputs, sg \in LonInputs, ep \in SighraEpInputs :
          call' = [fn |-> "get_sighra_correction", planet_lon |-> pl, sighrocca |-> sg,
                   ep |-> ep, loc |-> SighraLocals(pl, sg, ep)]
    /\ UNCHANGED <<mainVars, frameVars>>

FnTruePosition ==
    /\ pc = "harness" /\ stage = "idle" /\ call = NoCall
    /\ \E d \in DayInputs, p \in ParamInputs, sm \in SunMeanInputs : Enter(d, p, sm)
    /\ call' = [fn |-> "calculate_true_position"]
    /\ UNCHANGED mainVars

\* The caller takes the result; the callee's frame is gone.
FnReturn ==
    /\ pc = "harness"
    /\ stage \in {"idle", "Returned", "FinalSighraApplied", "Panicked"}
    /\ call # NoCall
    /\ stage' = "idle"
    /\ planet' = PLANETS[1] /\ days' = Undef /\ sun_mean' = Undef
    /\ mean_lon' = Undef /\ sighrocca_lon' = Undef /\ manda_ucca' = Undef
    /\ s1' = Undef /\ p1' = Undef /\ m1' = Undef /\ p2' = Undef /\ m2' = Undef
    /\ p_manda' = Undef /\ s2' = Undef /\ true_lon' = Undef
    /\ call' = NoCall
    /\ UNCHANGED mainVars

NextFn ==
    \/ FnNorm360
    \/ FnMeanLongitude
    \/ FnSighra
    \/ FnTruePosition
    \/ LuminaryReturn
    \/ HalfSighra
    \/ Manda1
    \/ Manda2
    \/ FinalSighra
    \/ FnReturn

SpecFn == InitFn /\ [][NextFn]_vars

(***************************************************************************)
(* Properties.                                                             *)
(***************************************************************************)
InRange(x) == IsFin(x) /\ FLe(Zero, x) /\ FLt(x, D360)

\* One unit in the last place of the values between 512 and 1024.
Tol == Round(1, 10 - Prec)

\* The distance between two angles on the circle.
CircDist(a, b) ==
    Bind(FAbs(FSub(FRem(a, D360), FRem(b, D360))), LAMBDA d : FMin(d, FSub(D360, d)))

IsWhole(x) == IsFin(x) /\ Fract(x) = Zero

MeanCall == call.fn = "get_mean_longitude"

\* C1 as stated: get_mean_longitude is periodic in MAHAYUGA_DAYS for every
\* rate: the results at days and at days + k * MAHAYUGA_DAYS agree within
\* tolerance.
C1_PeriodicForEveryRate ==
    MeanCall => FLe(CircDist(call.base.ret, call.shifted.ret), Tol)

\* C1 as amended: whenever k * rate is a whole number of revolutions (every
\* k for an integer rate), the results at days and at days + k * MAHAYUGA_DAYS
\* are the same angle modulo 360 within tolerance.
C1_PeriodicForWholeRevolutions ==
    (MeanCall /\ IsWhole(FMul(FromInt(call.k), call.revs)))
        => FLe(CircDist(call.base.ret, call.shifted.ret), Tol)

C1_Witness ==
    /\ MeanCall /\ call.k = 2 /\ call.revs = Dec(1, 2) /\ call.days = FromInt(3)
    /\ call.correction = FromInt(90)
    /\ call.base.ret = call.shifted.ret
    /\ call.base.cycles # call.shifted.cycles

\* C2: the fractional part taken from cycles lies in [0, 1), also when
\* cycles is negative.
C2_FractionInUnitInterval ==
    MeanCall => (FLe(Zero, call.base.fraction) /\ FLt(call.base.fraction, FromInt(1)))

\* C3: norm360 returns a value r with 0 <= r < 360 for every finite angle.
C3_Norm360InRange ==
    (call.fn = "norm360" /\ IsFin(call.angle)) => InRange(call.ret)

\* The chain of corrections for a synodic body, as one expression.
StarChain(ml, sg, ucca, p) ==
    Bind(get_sighra_correction(ml, sg, p.sighra_ep[1]), LAMBDA c1 :
    Bind(FAdd(ml, FDiv(c1, FromInt(2))), LAMBDA q1 :
    Bind(get_manda_correction(q1, ucca, p.manda_ep), LAMBDA e1 :
    Bind(FAdd(ml, FDiv(e1, FromInt(2))), LAMBDA q2 :
    Bind(get_manda_correction(q2, ucca, p.manda_ep), LAMBDA e2 :
    Bind(FAdd(ml, e2), LAMBDA qm :
    Bind(get_sighra_correction(qm, sg, p.sighra_ep[1]), LAMBDA c2 :
        [s1 |-> c1, p1 |-> q1, m1 |-> e1, p2 |-> q2, m2 |-> e2, p_manda |-> qm,
         s2 |-> c2, ret |-> norm360(FAdd(qm, c2))])))))))

StageNo ==
    CASE stage = "MeanComputed"       -> 1
      [] stage = "HalfSighraApplied"  -> 2
      [] stage = "Manda1Applied"      -> 3
      [] stage = "Manda2Applied"      -> 4
      [] stage = "FinalSighraApplied" -> 5
      [] OTHER                        -> 0

\* v is what step n of the chain gives once the call has reached step n, and
\* is not bound before.
AtStep(n, v, expected) == IF StageNo >= n THEN v = expected ELSE v = Undef

\* C4: for a Star body the corrections are applied in the order half-sighra,
\* manda 1, manda 2, final sighra, each from the values the claim names:
\* p1 = mean_lon + s1/2, p2 = mean_lon + m1/2, p_manda = mean_lon + m2 (not
\* p2 + m2), result = norm360(p_manda + s2); a step that has not run yet has
\* bound nothing.
C4_StarCorrectionOrder ==
    (StageNo >= 1 /\ planet.ptype = "Star") =>
        LET c == StarChain(mean_lon, sighrocca_lon, manda_ucca, planet)
        IN  /\ AtStep(2, s1, c.s1) /\ AtStep(2, p1, c.p1)
            /\ AtStep(3, m1, c.m1) /\ AtStep(3, p2, c.p2)
            /\ AtStep(4, m2, c.m2) /\ AtStep(4, p_manda, c.p_manda)
            /\ AtStep(5, s2, c.s2) /\ AtStep(5, true_lon, c.ret)

C4_Witness ==
    /\ pc = "loop" /\ stage = "FinalSighraApplied" /\ planet.name = "Mars"
    /\ m2 # Zero /\ m1 # m2 /\ p2 # mean_lon /\ p_manda # FAdd(p2, m2)
    /\ s1 # s2 /\ IsFin(true_lon)

OwnMean == get_mean_longitude(days, planet.revs, planet.bija_offset)

\* The last row main printed.
LastRow == out[Len(out)]

\* C5: Mercury and Venus take the Sun's mean longitude as mean longitude and
\* their own as sighra anomaly source, every other Star body the reverse;
\* and main displays the pair calculate_true_position used.
C5_PairSelectedByBodyRule ==
    /\ (StageNo >= 1 /\ planet.name \in {"Mercury", "Venus"})
           => (mean_lon = sun_mean /\ sighrocca_lon = OwnMean)
    /\ (StageNo >= 1 /\ planet.name \in {"Mars", "Jupiter", "Saturn"})
           => (mean_lon = OwnMean /\ sighrocca_lon = sun_mean)
    /\ (pc = "loop" /\ stage = "idle" /\ Len(out) > 0)
           => /\ LastRow.name = planet.name
              /\ LastRow.true = true_lon
              /\ LastRow.mean = mean_lon
              /\ LastRow.sighra = sighrocca_lon

C5_Witness ==
    /\ pc = "loop" /\ stage = "idle" /\ Len(out) = 4
    /\ LastRow.name = "Mercury" /\ LastRow.mean = mean_sun
    /\ LastRow.sighra # mean_sun /\ out[3].sighra = mean_sun

Odd(x) == IF x.m = 0 \/ x.m % 2 # 0 THEN x ELSE Fin(x.m \div 2, x.e + 1)

RECURSIVE OddForm(_)
\* x with the trailing zero bits of its significand moved into its exponent.
OddForm(x) == IF Odd(x) = x THEN x ELSE OddForm(Odd(x))

\* a + 180 = c as real numbers (a, c finite, in [0, 360)).
Plus180Is(a, c) ==
    Bind2(OddForm(a), OddForm(c), LAMBDA x, y :
        IF x.m = 0 THEN y = OddForm(FromInt(180))
        ELSE IF y.m = 0 THEN FALSE
        ELSE IF x.e < 0 - 16 \/ y.e < 0 - 16 THEN x.e = y.e /\ FALSE
        ELSE x.m * Pow2(x.e + 16) + 180 * Pow2(16) = y.m * Pow2(y.e + 16))

\* C6 as stated: Ketu is derived from Rahu, both are in [0, 360), and
\* (ketu - rahu) mod 360 is exactly 180.
C6_KetuExactlyOpposite ==
    pc = "done" =>
        /\ InRange(rahu) /\ InRange(ketu)
        /\ Plus180Is(rahu, ketu) \/ Plus180Is(ketu, rahu)

\* C6 as amended: Ketu is norm360(rahu + 180) in f64 arithmetic: both are in
\* [0, 360) and they are 180 degrees apart modulo 360 up to the rounding of
\* that one addition.
C6_KetuOppositeWithinRounding ==
    pc = "done" =>
        /\ InRange(rahu) /\ InRange(ketu)
        /\ out[Len(out) - 1].true = rahu /\ LastRow.true = ketu
        /\ FLe(FAbs(FSub(CircDist(ketu, rahu), FromInt(180))), Tol)

C6_Witness ==
    /\ pc = "done" /\ FLt(FromInt(180), rahu) /\ FLt(ketu, FromInt(180))
    /\ ~Plus180Is(ketu, rahu)

SighraCall == call.fn = "get_sighra_correction"

\* C7: the value passed to the arcsine in get_sighra_correction lies in
\* [-1, 1] and the correction is at most 90 degrees in magnitude, for every
\* planet_lon, sighrocca and epicycle pair, also where karna = 0.
C7_SighraArgumentClamped ==
    SighraCall =>
        /\ IsFin(call.loc.arg)
        /\ FLe(FromInt(0 - 1), call.loc.arg) /\ FLe(call.loc.arg, FromInt(1))
        /\ IsFin(call.loc.ret)
        /\ FLe(FAbs(call.loc.ret), FromInt(90))

C7_Witness ==
    /\ SighraCall /\ call.loc.karna = Zero /\ call.loc.anomaly = FromInt(180)
    /\ call.loc.r = R /\ IsNaN(call.loc.sine_val)
    /\ FAbs(call.loc.ret) = FromInt(90)

HitDomainError ==
    \/ \E v \in {mean_lon, manda_ucca, s1, p1, m1, p2, m2, p_manda, s2, true_lon} :
          v.k \in {"nan", "inf"}
    \/ /\ planet.ptype = "Luminary"
       /\ ~IsFin(get_manda_correction(mean_lon, manda_ucca, planet.manda_ep))

\* C9: a domain error in the computation of a body is surfaced as a failure:
\* calculate_true_position returns no longitude for that body.
C9_DomainErrorSurfaced == Returned => ~HitDomainError

\* C10: every entry of PLANETS has manda_ep, and has sighra_ep exactly when it
\* is a Star, so the unwrap of sighra_ep never panics.
C10_SighraEpPresentForStars ==
    /\ \A i \in 1 .. Len(PLANETS) :
          /\ "manda_ep" \in DOMAIN PLANETS[i]
          /\ (PLANETS[i].sighra_ep # None) <=> (PLANETS[i].ptype = "Star")
    /\ stage # "Panicked"

C10_Witness ==
    /\ pc = "loop" /\ planet.name = "Saturn" /\ stage = "HalfSighraApplied"
    /\ IsFin(s1)

=============================================================================
